---- MODULE Spec2Model ----
(***************************************************************************)
(* Runtime keybindings of survive-the-night: the token normalizer, the     *)
(* reserved-key and conflict checks, the mapping sanitizer, the            *)
(* load/save/reset protocol over localStorage, and the rebind state        *)
(* machine of the controls panel (InstructionPanel).                       *)
(*                                                                         *)
(* JavaScript values are records [t, v]: t is the value's kind and v a     *)
(* string naming it. Strings are Str(s); the other kinds matter because    *)
(* the sanitizer reads untyped data and because a lookup in an object      *)
(* literal also finds the properties inherited from Object.prototype.      *)
(***************************************************************************)
EXTENDS Naturals, Sequences, FiniteSets, TLC

VARIABLES
  \* sanitizeBindings applied as a function
  input,              \* the untyped value handed to sanitizeBindings
  phase,              \* "input", "once" (sanitized), "twice" (sanitized again)
  output,             \* sanitizeBindings(input)
  output2,            \* sanitizeBindings(output)
  \* the storage slot and the controls panel
  storage,            \* localStorage[RUNTIME_KEYBINDINGS_STORAGE_KEY]
  isOpen,             \* InstructionPanel's isOpen prop
  bindings,           \* useState bindings
  listeningActionId,  \* useState listeningActionId (Null or Str(id))
  errorMessage,       \* useState errorMessage (Null or a message)
  lastOp              \* the last operation, what it was given and what it did

vars == << input, phase, output, output2,
           storage, isOpen, bindings, listeningActionId, errorMessage, lastOp >>

\* ------------------------------------------------------------------ values

Str(s) == [t |-> "string", v |-> s]
Num(s) == [t |-> "number", v |-> s]
Fn(name) == [t |-> "function", v |-> name]
Obj(name) == [t |-> "object", v |-> name]
Undefined == [t |-> "undefined", v |-> ""]
Null == [t |-> "null", v |-> ""]

\* typeof x
TypeOf(x) == IF x.t = "null" THEN "object" ELSE x.t

\* ToBoolean(x), as used by `!x` and `if (x)`
Truthy(x) ==
  CASE x.t = "string" -> x.v # ""
    [] x.t = "number" -> x.v # "0"
    [] x.t = "undefined" -> FALSE
    [] x.t = "null" -> FALSE
    [] OTHER -> TRUE

\* ---------------------------------------------------------------- registry

REBINDABLE_ACTION_IDS ==
  << "moveUp", "moveLeft", "moveDown", "moveRight", "sprint", "interact",
     "teleportToBase", "quickHeal", "dropItem", "splitDropItem", "weaponsHud",
     "quickSwitchWeapon", "chat", "playerList", "controlsPanel" >>

ActionIds == { REBINDABLE_ACTION_IDS[i] : i \in DOMAIN REBINDABLE_ACTION_IDS }

DEFAULT_RUNTIME_KEYBINDINGS ==
  [ moveUp |-> Str("KeyW"), moveLeft |-> Str("KeyA"), moveDown |-> Str("KeyS"),
    moveRight |-> Str("KeyD"), sprint |-> Str("Shift"), interact |-> Str("KeyE"),
    teleportToBase |-> Str("KeyC"), quickHeal |-> Str("KeyH"),
    dropItem |-> Str("KeyG"), splitDropItem |-> Str("KeyX"),
    weaponsHud |-> Str("KeyF"), quickSwitchWeapon |-> Str("KeyQ"),
    chat |-> Str("KeyY"), playerList |-> Str("Tab"), controlsPanel |-> Str("KeyI") ]

\* The strings of the languages of the regular expressions of
\* normalizeBindingToken; each language is finite.
KeyCodes ==
  { "KeyA", "KeyB", "KeyC", "KeyD", "KeyE", "KeyF", "KeyG", "KeyH", "KeyI",
    "KeyJ", "KeyK", "KeyL", "KeyM", "KeyN", "KeyO", "KeyP", "KeyQ", "KeyR",
    "KeyS", "KeyT", "KeyU", "KeyV", "KeyW", "KeyX", "KeyY", "KeyZ" }

DigitCodes ==
  { "Digit0", "Digit1", "Digit2", "Digit3", "Digit4",
    "Digit5", "Digit6", "Digit7", "Digit8", "Digit9" }

NumpadCodes ==
  { "Numpad0", "Numpad1", "Numpad2", "Numpad3", "Numpad4",
    "Numpad5", "Numpad6", "Numpad7", "Numpad8", "Numpad9" }

ArrowCodes == { "ArrowUp", "ArrowDown", "ArrowLeft", "ArrowRight" }

NamedCodes ==
  { "Enter", "Tab", "Space", "Backspace", "Delete",
    "Home", "End", "PageUp", "PageDown", "Insert" }

BracketCodes == { "BracketLeft", "BracketRight" }

PunctuationCodes ==
  { "Semicolon", "Quote", "Comma", "Period", "Slash",
    "Backslash", "Minus", "Equal", "Backquote" }

\* A reserved set that lacks the map-toggle letter.
RESERVED_CODES_NoKeyM == { "Escape" } \cup DigitCodes \cup NumpadCodes

RESERVED_CODES == { "Escape", "KeyM" } \cup DigitCodes \cup NumpadCodes

\* An alias table that keeps the side of the left Shift key.
CANONICAL_ALIASES_LeftShiftKept ==
  [ shiftleft |-> "ShiftLeft", shiftright |-> "Shift", shift |-> "Shift",
    controlleft |-> "Control", controlright |-> "Control", control |-> "Control",
    ctrl |-> "Control",
    altleft |-> "Alt", altright |-> "Alt", alt |-> "Alt",
    metaleft |-> "Meta", metaright |-> "Meta", meta |-> "Meta",
    cmd |-> "Meta", command |-> "Meta",
    enter |-> "Enter", tab |-> "Tab", space |-> "Space" ]
  @@ (" " :> "Space") @@ ("escape" :> "Escape") @@ ("esc" :> "Escape")

\* An alias table without the entry of the right Shift key.
CANONICAL_ALIASES_NoShiftRight ==
  [ shiftleft |-> "Shift", shift |-> "Shift",
    controlleft |-> "Control", controlright |-> "Control", control |-> "Control",
    ctrl |-> "Control",
    altleft |-> "Alt", altright |-> "Alt", alt |-> "Alt",
    metaleft |-> "Meta", metaright |-> "Meta", meta |-> "Meta",
    cmd |-> "Meta", command |-> "Meta",
    enter |-> "Enter", tab |-> "Tab", space |-> "Space" ]
  @@ (" " :> "Space") @@ ("escape" :> "Escape") @@ ("esc" :> "Escape")

CANONICAL_ALIASES ==
  [ shiftleft |-> "Shift", shiftright |-> "Shift", shift |-> "Shift",
    controlleft |-> "Control", controlright |-> "Control", control |-> "Control",
    ctrl |-> "Control",
    altleft |-> "Alt", altright |-> "Alt", alt |-> "Alt",
    metaleft |-> "Meta", metaright |-> "Meta", meta |-> "Meta",
    cmd |-> "Meta", command |-> "Meta",
    enter |-> "Enter", tab |-> "Tab", space |-> "Space" ]
  @@ (" " :> "Space") @@ ("escape" :> "Escape") @@ ("esc" :> "Escape")

\* The properties every object literal inherits from Object.prototype.
ObjectPrototypeFunctions ==
  { "constructor", "hasOwnProperty", "isPrototypeOf", "propertyIsEnumerable",
    "toLocaleString", "toString", "valueOf", "__defineGetter__",
    "__defineSetter__", "__lookupGetter__", "__lookupSetter__" }

\* CANONICAL_ALIASES[key]: an own property, else an inherited one, else
\* undefined.
AliasLookup(key) ==
  IF key \in DOMAIN CANONICAL_ALIASES THEN Str(CANONICAL_ALIASES[key])
  ELSE IF key \in ObjectPrototypeFunctions THEN Fn(key)
  ELSE IF key = "__proto__" THEN Obj("Object.prototype")
  ELSE Undefined

\* ------------------------------------------------------- string operations

\* String.prototype.toLowerCase on the strings the model uses: every string
\* of the model with an upper-case letter has an arm.
ToLowerCase(s) ==
  CASE s = "KeyA" -> "keya"
    [] s = "KeyB" -> "keyb"
    [] s = "KeyC" -> "keyc"
    [] s = "KeyD" -> "keyd"
    [] s = "KeyE" -> "keye"
    [] s = "KeyF" -> "keyf"
    [] s = "KeyG" -> "keyg"
    [] s = "KeyH" -> "keyh"
    [] s = "KeyI" -> "keyi"
    [] s = "KeyJ" -> "keyj"
    [] s = "KeyK" -> "keyk"
    [] s = "KeyL" -> "keyl"
    [] s = "KeyM" -> "keym"
    [] s = "KeyN" -> "keyn"
    [] s = "KeyO" -> "keyo"
    [] s = "KeyP" -> "keyp"
    [] s = "KeyQ" -> "keyq"
    [] s = "KeyR" -> "keyr"
    [] s = "KeyS" -> "keys"
    [] s = "KeyT" -> "keyt"
    [] s = "KeyU" -> "keyu"
    [] s = "KeyV" -> "keyv"
    [] s = "KeyW" -> "keyw"
    [] s = "KeyX" -> "keyx"
    [] s = "KeyY" -> "keyy"
    [] s \in { "KeyZ", "KEYZ", "keyZ", "Keyz" } -> "keyz"
    [] s = "Digit0" -> "digit0"
    [] s = "Digit1" -> "digit1"
    [] s = "Digit2" -> "digit2"
    [] s = "Digit3" -> "digit3"
    [] s = "Digit4" -> "digit4"
    [] s = "Digit5" -> "digit5"
    [] s = "Digit6" -> "digit6"
    [] s = "Digit7" -> "digit7"
    [] s = "Digit8" -> "digit8"
    [] s = "Digit9" -> "digit9"
    [] s = "Numpad0" -> "numpad0"
    [] s = "Numpad1" -> "numpad1"
    [] s = "Numpad2" -> "numpad2"
    [] s = "Numpad3" -> "numpad3"
    [] s = "Numpad4" -> "numpad4"
    [] s = "Numpad5" -> "numpad5"
    [] s = "Numpad6" -> "numpad6"
    [] s = "Numpad7" -> "numpad7"
    [] s = "Numpad8" -> "numpad8"
    [] s = "Numpad9" -> "numpad9"
    [] s \in { "ArrowUp", "Arrowup" } -> "arrowup"
    [] s = "ArrowDown" -> "arrowdown"
    [] s = "ArrowLeft" -> "arrowleft"
    [] s = "ArrowRight" -> "arrowright"
    [] s \in { "Enter", "ENTER" } -> "enter"
    [] s \in { "Tab", "TAB" } -> "tab"
    [] s = "Space" -> "space"
    [] s = "Backspace" -> "backspace"
    [] s = "Delete" -> "delete"
    [] s = "Home" -> "home"
    [] s = "End" -> "end"
    [] s = "PageUp" -> "pageup"
    [] s = "PageDown" -> "pagedown"
    [] s = "Insert" -> "insert"
    [] s = "BracketLeft" -> "bracketleft"
    [] s = "BracketRight" -> "bracketright"
    [] s = "Semicolon" -> "semicolon"
    [] s = "Quote" -> "quote"
    [] s = "Comma" -> "comma"
    [] s = "Period" -> "period"
    [] s = "Slash" -> "slash"
    [] s = "Backslash" -> "backslash"
    [] s = "Minus" -> "minus"
    [] s = "Equal" -> "equal"
    [] s = "Backquote" -> "backquote"
    [] s \in { "Shift", "SHIFT", "ShIfT", "shifT", "shiFt", "shiFT", "shIft",
         "shIfT", "shIFt", "shIFT", "sHift", "sHifT", "sHiFt", "sHiFT",
         "sHIft", "sHIfT", "sHIFt", "sHIFT", "ShifT", "ShiFt", "ShiFT",
         "ShIft", "ShIFt", "ShIFT", "SHift", "SHifT", "SHiFt", "SHiFT",
         "SHIft", "SHIfT", "SHIFt" } -> "shift"
    [] s = "Control" -> "control"
    [] s = "Alt" -> "alt"
    [] s = "Meta" -> "meta"
    [] s \in { "Escape", "ESCAPE" } -> "escape"
    [] s \in { "ShiftLeft", "SHIFTLEFT", "shiftLeft", "ShiftLEFT",
         "Shiftleft" } -> "shiftleft"
    [] s \in { "ShiftRight", "SHIFTRIGHT", "SHIFTright",
         "shiftRight" } -> "shiftright"
    [] s = "ControlLeft" -> "controlleft"
    [] s = "ControlRight" -> "controlright"
    [] s = "AltLeft" -> "altleft"
    [] s = "AltRight" -> "altright"
    [] s = "MetaLeft" -> "metaleft"
    [] s = "MetaRight" -> "metaright"
    [] s \in { "Esc", "ESC" } -> "esc"
    [] s = "CTRL" -> "ctrl"
    [] s = "Cmd" -> "cmd"
    [] s = "KeyZZ" -> "keyzz"
    [] s = "F1" -> "f1"
    [] s = "CapsLock" -> "capslock"
    [] s = "Unidentified" -> "unidentified"
    [] s \in { "Constructor", "CONSTRUCTOR" } -> "constructor"
    [] s \in { "toString", "ToString" } -> "tostring"
    [] s = "valueOf" -> "valueof"
    [] s = "hasOwnProperty" -> "hasownproperty"
    [] s = "Escape2" -> "escape2"
    [] s = "F12" -> "f12"
    [] s = "NumpadAdd" -> "numpadadd"
    [] s = "isPrototypeOf" -> "isprototypeof"
    [] s = "toLocaleString" -> "tolocalestring"
    [] s = "propertyIsEnumerable" -> "propertyisenumerable"
    [] s = "Key Z" -> "key z"
    [] s = "Key" -> "key"
    [] s = "KeyAB" -> "keyab"
    [] s = "Digit10" -> "digit10"
    [] s = "Numpad" -> "numpad"
    [] OTHER -> s

\* String.prototype.trim on the strings the model uses: every string of the
\* model with leading or trailing white space has an arm.
Trim(s) ==
  CASE s = " KeyZ " -> "KeyZ"
    [] s = "  shift  " -> "shift"
    [] s = " ShiftRight" -> "ShiftRight"
    [] s = " esc " -> "esc"
    [] s = "KeyD " -> "KeyD"
    [] s \in { "   ", " " } -> ""
    [] s = " ESC " -> "ESC"
    [] s = " SHIFTLEFT " -> "SHIFTLEFT"
    [] s = "Shift " -> "Shift"
    [] s = " shiftright" -> "shiftright"
    [] s = "  ShIfT" -> "ShIfT"
    [] s = " constructor " -> "constructor"
    [] s = " toString" -> "toString"
    [] s = " Key Z " -> "Key Z"
    [] OTHER -> s

\* -------------------------------------------------------- token operations

getBindingEventCodes(token) ==
  CASE token = Str("Shift") -> << Str("ShiftLeft"), Str("ShiftRight") >>
    [] token = Str("Control") -> << Str("ControlLeft"), Str("ControlRight") >>
    [] token = Str("Alt") -> << Str("AltLeft"), Str("AltRight") >>
    [] token = Str("Meta") -> << Str("MetaLeft"), Str("MetaRight") >>
    [] OTHER -> << token >>

\* event.code is a string
matchesBinding(code, token) ==
  LET codes == getBindingEventCodes(token)
  IN \E i \in DOMAIN codes : codes[i] = Str(code)

MatchesPattern(raw) ==
  \/ raw \in KeyCodes
  \/ raw \in DigitCodes
  \/ raw \in NumpadCodes
  \/ raw \in ArrowCodes
  \/ raw \in NamedCodes
  \/ raw \in BracketCodes
  \/ raw \in PunctuationCodes

\* Returns a JavaScript value: Null for a rejection, else whatever the alias
\* lookup or the patterns give.
normalizeBindingToken(token) ==
  IF ~Truthy(token) \/ TypeOf(token) # "string" THEN Null
  ELSE LET raw == Trim(token.v)
       IN IF raw = "" THEN Null
          ELSE LET alias == AliasLookup(ToLowerCase(raw))
               IN IF Truthy(alias) THEN alias
                  ELSE IF MatchesPattern(raw) THEN Str(raw)
                  ELSE Null

\* event: [key, code], both strings
normalizeCapturedKey(event) ==
  IF event.code = "" \/ event.code = "Unidentified" THEN Null
  ELSE normalizeBindingToken(Str(event.code))

\* A reserved check whose set lacks Escape.
isReservedBindingNoEscape(token) ==
  LET codes == getBindingEventCodes(token)
  IN \E i \in DOMAIN codes :
       /\ codes[i].t = "string"
       /\ codes[i].v \in (RESERVED_CODES \ { "Escape" })

isReservedBinding(token) ==
  LET codes == getBindingEventCodes(token)
  IN \E i \in DOMAIN codes :
       /\ codes[i].t = "string"
       /\ codes[i].v \in RESERVED_CODES

RECURSIVE ConflictFrom(_, _, _, _)
ConflictFrom(mapping, actionId, candidate, i) ==
  IF i > Len(REBINDABLE_ACTION_IDS) THEN Null
  ELSE LET id == REBINDABLE_ACTION_IDS[i]
       IN IF id = actionId THEN ConflictFrom(mapping, actionId, candidate, i + 1)
          ELSE IF mapping[id] = candidate THEN Str(id)
          ELSE ConflictFrom(mapping, actionId, candidate, i + 1)

\* A conflict check that finds nothing.
findBindingConflictNone(mapping, actionId, candidate) == Null

\* Returns Str(id) of the first other action bound to candidate, else Null.
findBindingConflict(mapping, actionId, candidate) ==
  ConflictFrom(mapping, actionId, candidate, 1)

\* ---------------------------------------------------------------- sanitizer

\* An untyped value handed to sanitizeBindings: [kind, fields]. kind is one of
\* "null", "number", "string", "array", "object"; fields gives the value read
\* by record[key] for every key the model uses (Undefined for an absent one).
UnrelatedKeys == { "jump" }

Keys == ActionIds \cup UnrelatedKeys

NoFields == [k \in Keys |-> Undefined]

\* The set seeded by the first loop of sanitizeBindings.
SeedSeen(sanitized) ==
  { sanitized[a] : a \in { b \in ActionIds : ~isReservedBinding(sanitized[b]) } }

\* A sanitizer that never looks for a duplicate.
TakenByOtherNever(seen, previousDefault, normalized) == FALSE

\* nextSeen.has(normalized), nextSeen being seen without previousDefault
TakenByOther(seen, previousDefault, normalized) ==
  normalized \in (seen \ { previousDefault })

\* One iteration of the second loop: <<sanitized, seen>> after it.
SanitizeStep(record, actionId, sanitized, seen) ==
  LET raw == record[actionId]
  IN IF TypeOf(raw) # "string" THEN << sanitized, seen >>
     ELSE LET normalized == normalizeBindingToken(raw)
          IN IF ~Truthy(normalized) THEN << sanitized, seen >>
             ELSE IF isReservedBinding(normalized) THEN << sanitized, seen >>
             ELSE LET previousDefault == sanitized[actionId]
                  IN IF TakenByOther(seen, previousDefault, normalized)
                     THEN << sanitized, seen >>
                     ELSE << [sanitized EXCEPT ![actionId] = normalized],
                             (seen \ { previousDefault }) \cup { normalized } >>

\* A second loop that visits the registry from its last action to its first.
RECURSIVE SanitizeFromReversed(_, _, _, _)
SanitizeFromReversed(record, i, sanitized, seen) ==
  IF i > Len(REBINDABLE_ACTION_IDS) THEN sanitized
  ELSE LET actionId == REBINDABLE_ACTION_IDS[Len(REBINDABLE_ACTION_IDS) + 1 - i]
           next == SanitizeStep(record, actionId, sanitized, seen)
       IN SanitizeFromReversed(record, i + 1, next[1], next[2])

RECURSIVE SanitizeFrom(_, _, _, _)
SanitizeFrom(record, i, sanitized, seen) ==
  IF i > Len(REBINDABLE_ACTION_IDS) THEN sanitized
  ELSE LET next == SanitizeStep(record, REBINDABLE_ACTION_IDS[i], sanitized, seen)
       IN SanitizeFrom(record, i + 1, next[1], next[2])

sanitizeBindings(value) ==
  LET sanitized == DEFAULT_RUNTIME_KEYBINDINGS
  IN IF value.kind \in { "null", "number", "string" } THEN sanitized
     ELSE SanitizeFrom(value.fields, 1, sanitized, SeedSeen(sanitized))

\* A mapping seen as an untyped object: what record[key] reads from it.
ObjectOf(mapping) ==
  [ kind |-> "object",
    fields |-> [k \in Keys |-> IF k \in ActionIds THEN mapping[k] ELSE Undefined] ]

\* -------------------------------------------------------------- persistence

\* The storage slot: [kind, value]. kind "absent": getItem returns null;
\* "empty": the empty string; "garbage": text JSON.parse rejects; "json": text
\* JSON.parse reads as value.
NullValue == [kind |-> "null", fields |-> NoFields]

StorageAbsent == [kind |-> "absent", value |-> NullValue]

\* What JSON.parse reads back for a property value written by
\* JSON.stringify: a function-valued or undefined property is omitted, an
\* object without own enumerable properties is written as {}.
JsonValue(x) ==
  CASE x.t = "function" -> Undefined
    [] x.t = "undefined" -> Undefined
    [] x = Obj("Object.prototype") -> Obj("{}")
    [] OTHER -> x

\* JSON.stringify(sanitized), as the storage slot holding the text
JsonStringify(mapping) ==
  [ kind |-> "json",
    value |-> [ kind |-> "object",
                fields |-> [k \in Keys |->
                              IF k \in ActionIds THEN JsonValue(mapping[k])
                              ELSE Undefined] ] ]

\* formatBindingForDisplay(token) calls token.match, which only a string has:
\* for any other value it raises a TypeError.
FormatRaises(token) == token.t # "string"

\* The actions whose labels syncSharedKeybindingDisplayConfig mirrors.
SyncedActions ==
  { "interact", "dropItem", "quickHeal", "sprint", "chat", "playerList",
    "weaponsHud", "quickSwitchWeapon", "controlsPanel" }

\* Whether syncSharedKeybindingDisplayConfig(mapping) raises. hasConfig:
\* window.config.keybindings exists (without it the function returns at once).
SyncRaises(mapping, hasConfig) ==
  hasConfig /\ \E a \in SyncedActions : FormatRaises(mapping[a])

\* In the browser (window defined). readThrows: localStorage.getItem raises.
\* Whatever raises inside the try block is caught, and the defaults returned.
loadRuntimeKeybindings(store, readThrows, hasConfig) ==
  LET defaults == DEFAULT_RUNTIME_KEYBINDINGS
  IN IF readThrows THEN defaults
     ELSE IF store.kind \in { "absent", "empty" } THEN defaults
     ELSE IF store.kind = "garbage" THEN defaults
     ELSE LET sanitized == sanitizeBindings(store.value)
          IN IF SyncRaises(sanitized, hasConfig) THEN defaults ELSE sanitized

\* In the browser. writeThrows: localStorage.setItem raises (and is caught).
\* Gives the mapping returned, the storage slot afterwards, the slot as the
\* listeners of the updated event see it, whether the event was dispatched,
\* and whether the call raised instead of returning: the display sync is
\* outside the try block, after the write and before the dispatch.
saveRuntimeKeybindings(value, store, writeThrows, hasConfig) ==
  LET sanitized == sanitizeBindings(value)
      written == IF writeThrows THEN store ELSE JsonStringify(sanitized)
      syncRaised == SyncRaises(sanitized, hasConfig)
  IN [ ret |-> sanitized,
       storage |-> written,
       atNotify |-> written,
       notified |-> ~syncRaised,
       raised |-> syncRaised ]

\* A reset that returns the defaults and writes nothing.
resetWithoutSave(store, writeThrows, hasConfig) ==
  [ ret |-> DEFAULT_RUNTIME_KEYBINDINGS, storage |-> store, atNotify |-> store,
    notified |-> TRUE, raised |-> FALSE ]

resetRuntimeKeybindings(store, writeThrows, hasConfig) ==
  saveRuntimeKeybindings(ObjectOf(DEFAULT_RUNTIME_KEYBINDINGS), store, writeThrows,
                         hasConfig)

\* ------------------------------------------------------------------ bounds

\* Candidate fields and raw field values of the sanitizer's inputs.
MaxFields == 3

MaxValues == 9

\* Stored values: the initial contents of the storage slot and the values
\* given to save.
MaxStored == 7

\* Actions the panel's user rebinds, and physical keys the user presses.
MaxPanelActions == 3

MaxEventCodes == 9

Prefix(list, n) == { list[i] : i \in { j \in DOMAIN list : j <= n } }

FieldList == << "moveUp", "moveRight", "chat", "sprint", "interact" >>

RawValueList ==
  << Undefined, Str("KeyD"), Str("KeyZ"), Str("constructor"), Str("esc"),
     Str("ShiftLeft"), Str("Digit1"), Num("7"), Str(" KeyZ "), Str("KeyW"),
     Str("F1"), Str("KeyM"), Str("shift"), Str("KeyY"), Str("Numpad5") >>

\* The objects whose fields among `fields` hold values of `values`, with or
\* without an unrelated key.
ObjectsOver(fields, values) ==
  { [ kind |-> "object",
      fields |-> [k \in Keys |->
                    IF k \in fields THEN f[k]
                    ELSE IF k \in UnrelatedKeys THEN u
                    ELSE Undefined] ] :
    f \in [fields -> values], u \in { Undefined, Str("KeyZ") } }

NonObjects ==
  { NullValue,
    [kind |-> "number", fields |-> NoFields],
    [kind |-> "string", fields |-> NoFields],
    [kind |-> "array", fields |-> NoFields] }

\* Tokens for the mappings that bind every action.
TokenValues == { Str("KeyW"), Str("KeyD"), Str("KeyZ"), Str("KeyY"), Str("Shift") }

\* The mappings of all 15 actions that differ from the defaults on `fields`
\* only, seen as objects.
CompleteOver(fields, values) ==
  { [ kind |-> "object",
      fields |-> [k \in Keys |->
                    IF k \in fields THEN f[k]
                    ELSE IF k \in ActionIds THEN DEFAULT_RUNTIME_KEYBINDINGS[k]
                    ELSE Undefined] ] :
    f \in [fields -> values] }

Candidates ==
  NonObjects
    \cup ObjectsOver(Prefix(FieldList, MaxFields), Prefix(RawValueList, MaxValues))
    \cup CompleteOver(Prefix(FieldList, MaxFields), TokenValues)

\* The object whose fields are those of the record f.
ObjectWith(f) ==
  [ kind |-> "object",
    fields |-> [k \in Keys |-> IF k \in DOMAIN f THEN f[k] ELSE Undefined] ]

StoredValueList ==
  << ObjectWith([chat |-> Str("KeyZ")]),
     ObjectWith([moveUp |-> Str("constructor")]),
     ObjectWith([chat |-> Str("constructor")]),
     ObjectWith([interact |-> Str("KeyD"), moveRight |-> Str("KeyD")]),
     NullValue,
     ObjectWith([interact |-> Str("KeyY"), chat |-> Str("KeyE")]),
     ObjectWith([moveUp |-> Str("esc"), chat |-> Str(" KeyZ "), jump |-> Str("KeyZ")]),
     [kind |-> "array", fields |-> NoFields],
     ObjectWith([sprint |-> Str("KeyZ"), interact |-> Str("shift")]),
     [kind |-> "number", fields |-> NoFields],
     ObjectWith([chat |-> Num("7"), interact |-> Str("KeyZ")]) >>

StoredValues == Prefix(StoredValueList, MaxStored)

InitialStorage ==
  { StorageAbsent,
    [kind |-> "empty", value |-> NullValue],
    [kind |-> "garbage", value |-> NullValue] }
    \cup { [kind |-> "json", value |-> v] : v \in StoredValues }

PanelActionList == << "interact", "chat", "moveUp", "moveRight", "sprint" >>

PanelActions == Prefix(PanelActionList, MaxPanelActions)

EventCodeList ==
  << "KeyY", "KeyZ", "Escape", "KeyE", "Digit1", "KeyM", "ShiftLeft",
     "ShiftRight", "Unidentified", "F1", "Numpad5", "", "KeyW" >>

EventKeys == { "Escape", "z" }

Events == [ key : EventKeys, code : Prefix(EventCodeList, MaxEventCodes) ]

\* ------------------------------------------- sanitizeBindings as a function

NoOp ==
  [ op |-> "none", outcome |-> "", key |-> "", code |-> "", notified |-> FALSE,
    writeFailed |-> FALSE, readFailed |-> FALSE, raised |-> FALSE,
    observed |-> DEFAULT_RUNTIME_KEYBINDINGS ]

NoError == [kind |-> "none", action |-> "", token |-> ""]

PanelIdle ==
  /\ isOpen = FALSE
  /\ bindings = DEFAULT_RUNTIME_KEYBINDINGS
  /\ listeningActionId = Null
  /\ errorMessage = NoError
  /\ lastOp = NoOp

InitSanitize ==
  /\ input \in Candidates
  /\ phase = "input"
  /\ output = DEFAULT_RUNTIME_KEYBINDINGS
  /\ output2 = DEFAULT_RUNTIME_KEYBINDINGS
  /\ storage = StorageAbsent
  /\ PanelIdle

Sanitize ==
  /\ phase = "input"
  /\ phase' = "once"
  /\ output' = sanitizeBindings(input)
  /\ UNCHANGED << input, output2, storage, isOpen, bindings, listeningActionId,
                  errorMessage, lastOp >>

SanitizeAgain ==
  /\ phase = "once"
  /\ phase' = "twice"
  /\ output2' = sanitizeBindings(ObjectOf(output))
  /\ UNCHANGED << input, output, storage, isOpen, bindings, listeningActionId,
                  errorMessage, lastOp >>

NextSanitize == Sanitize \/ SanitizeAgain

SpecSanitize == InitSanitize /\ [][NextSanitize]_vars

\* --------------------------------------- normalizeBindingToken as a function

\* Raw strings given to the normalizer: the canonical tokens, the physical
\* codes, the alias keys, spellings of them in other letter cases or with
\* white space around, names of Object.prototype, and strings of no token.
RawStrings ==
  { "KeyA", "KeyB", "KeyC", "KeyD", "KeyE", "KeyF", "KeyG", "KeyH", "KeyI",
    "KeyJ", "KeyK", "KeyL", "KeyM", "KeyN", "KeyO", "KeyP", "KeyQ", "KeyR",
    "KeyS", "KeyT", "KeyU", "KeyV", "KeyW", "KeyX", "KeyY", "KeyZ", "Digit0",
    "Digit1", "Digit2", "Digit3", "Digit4", "Digit5", "Digit6", "Digit7",
    "Digit8", "Digit9", "Numpad0", "Numpad1", "Numpad2", "Numpad3", "Numpad4",
    "Numpad5", "Numpad6", "Numpad7", "Numpad8", "Numpad9", "ArrowUp",
    "ArrowDown", "ArrowLeft", "ArrowRight", "Enter", "Tab", "Space",
    "Backspace", "Delete", "Home", "End", "PageUp", "PageDown", "Insert",
    "BracketLeft", "BracketRight", "Semicolon", "Quote", "Comma", "Period",
    "Slash", "Backslash", "Minus", "Equal", "Backquote", "Shift", "Control",
    "Alt", "Meta", "Escape", "ShiftLeft", "ShiftRight", "ControlLeft",
    "ControlRight", "AltLeft", "AltRight", "MetaLeft", "MetaRight",
    "shiftleft", "shiftright", "shift", "controlleft", "controlright",
    "control", "ctrl", "altleft", "altright", "alt", "metaleft", "metaright",
    "meta", "cmd", "command", "enter", "tab", "space", "escape", "esc", " ",
    "SHIFT", "ShIfT", "SHIFTLEFT", "SHIFTRIGHT", "Esc", "ESC", "CTRL", "Cmd",
    "TAB", "keyz", "KEYZ", "KeyZZ", "F1", "CapsLock", "Unidentified",
    "Constructor", "CONSTRUCTOR", "constructor", "__proto__", "toString",
    "tostring", "valueOf", "hasOwnProperty", "shifT", "shiFt", "shiFT",
    "shIft", "shIfT", "shIFt", "shIFT", "sHift", "sHifT", "sHiFt", "sHiFT",
    "sHIft", "sHIfT", "sHIFt", "sHIFT", "ShifT", "ShiFt", "ShiFT", "ShIft",
    "ShIFt", "ShIFT", "SHift", "SHifT", "SHiFt", "SHiFT", "SHIft", "SHIfT",
    "SHIFt", "shiftLeft", "ShiftLEFT", "SHIFTright", "shiftRight",
    "Shiftleft", "ESCAPE", "Escape2", "keyZ", "Keyz", "digit1", "ENTER",
    "Arrowup", "F12", "NumpadAdd", "ToString", "isPrototypeOf",
    "toLocaleString", "propertyIsEnumerable", " KeyZ ", "  shift  ",
    " ShiftRight", " esc ", "KeyD ", "   ", " ESC ", " SHIFTLEFT ", "Shift ",
    " shiftright", "  ShIfT", " constructor ", " toString", " Key Z ", "",
    "Key Z", "f1", "unknown", "key", "Key", "KeyAB", "Digit10", "Numpad",
    "numpad5", "arrowup", "backspace", "pageup" }

InitNormalize ==
  /\ input \in { Str(s) : s \in RawStrings }
  /\ phase = "raw"
  /\ output = Undefined
  /\ output2 = Undefined
  /\ storage = StorageAbsent
  /\ PanelIdle

\* output: normalizeBindingToken(input).
Normalize ==
  /\ phase = "raw"
  /\ phase' = "normalized"
  /\ output' = normalizeBindingToken(input)
  /\ UNCHANGED << input, output2, storage, isOpen, bindings, listeningActionId,
                  errorMessage, lastOp >>

\* output2: normalizeCapturedKey of an event whose code is the input.
NormalizeCaptured ==
  /\ phase = "normalized"
  /\ phase' = "captured"
  /\ output2' = normalizeCapturedKey([key |-> "", code |-> input.v])
  /\ UNCHANGED << input, output, storage, isOpen, bindings, listeningActionId,
                  errorMessage, lastOp >>

NextNormalize == Normalize \/ NormalizeCaptured

SpecNormalize == InitNormalize /\ [][NextNormalize]_vars

\* ------------------------------------------------ load, save, reset as calls

InitApi ==
  /\ storage \in InitialStorage
  /\ input = NullValue
  /\ phase = "api"
  /\ output = DEFAULT_RUNTIME_KEYBINDINGS
  /\ output2 = DEFAULT_RUNTIME_KEYBINDINGS
  /\ PanelIdle

\* save(m): input is m, output the mapping returned (the one of the call
\* before when this one raised), observed the mapping a listener of the
\* updated event loads in its handler, storage being readable.
ApiSave(m, writeThrows, hasConfig) ==
  \E r \in { saveRuntimeKeybindings(m, storage, writeThrows, hasConfig) } :
     /\ input' = m
     /\ output' = IF r.raised THEN output ELSE r.ret
     /\ storage' = r.storage
     /\ lastOp' = [NoOp EXCEPT !.op = "save", !.notified = r.notified,
                               !.writeFailed = writeThrows,
                               !.raised = r.raised,
                               !.observed =
                                  IF r.notified
                                  THEN loadRuntimeKeybindings(r.atNotify, FALSE,
                                                              hasConfig)
                                  ELSE DEFAULT_RUNTIME_KEYBINDINGS]
     /\ UNCHANGED << phase, output2, isOpen, bindings, listeningActionId, errorMessage >>

\* load(): output is the mapping returned.
ApiLoad(readThrows, hasConfig) ==
  /\ output' = loadRuntimeKeybindings(storage, readThrows, hasConfig)
  /\ lastOp' = [NoOp EXCEPT !.op = "load", !.readFailed = readThrows]
  /\ UNCHANGED << input, phase, output2, storage, isOpen, bindings,
                  listeningActionId, errorMessage >>

\* reset(): output is the mapping returned.
ApiReset(writeThrows, hasConfig) ==
  \E r \in { resetRuntimeKeybindings(storage, writeThrows, hasConfig) } :
     /\ output' = IF r.raised THEN output ELSE r.ret
     /\ storage' = r.storage
     /\ lastOp' = [NoOp EXCEPT !.op = "reset", !.notified = r.notified,
                               !.writeFailed = writeThrows,
                               !.raised = r.raised,
                               !.observed =
                                  IF r.notified
                                  THEN loadRuntimeKeybindings(r.atNotify, FALSE,
                                                              hasConfig)
                                  ELSE DEFAULT_RUNTIME_KEYBINDINGS]
     /\ UNCHANGED << input, phase, output2, isOpen, bindings, listeningActionId,
                     errorMessage >>

NextApi ==
  \/ \E m \in StoredValues, writeThrows, hasConfig \in BOOLEAN :
       ApiSave(m, writeThrows, hasConfig)
  \/ \E readThrows, hasConfig \in BOOLEAN : ApiLoad(readThrows, hasConfig)
  \/ \E writeThrows, hasConfig \in BOOLEAN : ApiReset(writeThrows, hasConfig)

SpecApi == InitApi /\ [][NextApi]_vars

\* ------------------------------------------------------- the controls panel

Init ==
  /\ input = NullValue
  /\ phase = "panel"
  /\ output = DEFAULT_RUNTIME_KEYBINDINGS
  /\ output2 = DEFAULT_RUNTIME_KEYBINDINGS
  /\ storage \in InitialStorage
  /\ PanelIdle

PureUnchanged == UNCHANGED << input, phase, output, output2 >>

\* isOpen becomes true: the effect on [isOpen] loads the bindings.
Open(readThrows, hasConfig) ==
  /\ ~isOpen
  /\ isOpen' = TRUE
  /\ bindings' = loadRuntimeKeybindings(storage, readThrows, hasConfig)
  /\ lastOp' = [NoOp EXCEPT !.op = "open", !.readFailed = readThrows]
  /\ UNCHANGED << storage, listeningActionId, errorMessage >>
  /\ PureUnchanged

\* A panel whose closing leaves the listening mode as it was.
CloseKeepsListening ==
  /\ isOpen
  /\ isOpen' = FALSE
  /\ lastOp' = [NoOp EXCEPT !.op = "close"]
  /\ UNCHANGED << storage, bindings, listeningActionId, errorMessage >>
  /\ PureUnchanged

\* onClose (the close button, a click outside): isOpen becomes false and the
\* effect on [isOpen] leaves the listening mode.
Close ==
  /\ isOpen
  /\ isOpen' = FALSE
  /\ listeningActionId' = Null
  /\ errorMessage' = NoError
  /\ lastOp' = [NoOp EXCEPT !.op = "close"]
  /\ UNCHANGED << storage, bindings >>
  /\ PureUnchanged

\* A click on the binding button of a row.
StartListening(actionId) ==
  /\ isOpen
  /\ listeningActionId' = Str(actionId)
  /\ errorMessage' = NoError
  /\ lastOp' = [NoOp EXCEPT !.op = "start"]
  /\ UNCHANGED << storage, isOpen, bindings >>
  /\ PureUnchanged

\* The Reset to Defaults button. The updated event runs syncBindings, whose
\* setBindings(load()) is followed by setBindings(next). A call that raises
\* leaves the handler before any setState.
ResetClick(writeThrows, readThrows, hasConfig) ==
  /\ isOpen
  /\ \E r \in { resetRuntimeKeybindings(storage, writeThrows, hasConfig) } :
        /\ storage' = r.storage
        /\ IF r.raised
           THEN /\ lastOp' = [NoOp EXCEPT !.op = "reset", !.raised = TRUE,
                                          !.writeFailed = writeThrows]
                /\ UNCHANGED << bindings, listeningActionId, errorMessage >>
           ELSE /\ bindings' = r.ret
                /\ listeningActionId' = Null
                /\ errorMessage' = NoError
                /\ lastOp' =
                     [NoOp EXCEPT !.op = "reset", !.notified = r.notified,
                                  !.writeFailed = writeThrows,
                                  !.readFailed = readThrows,
                                  !.observed =
                                     loadRuntimeKeybindings(r.atNotify, readThrows,
                                                            hasConfig)]
  /\ UNCHANGED isOpen
  /\ PureUnchanged

KeyOp(e, outcome) ==
  [NoOp EXCEPT !.op = "keydown", !.outcome = outcome, !.key = e.key, !.code = e.code]

\* The capturing keydown listener, registered while open and listening.
handleCaptureKey(e) ==
  LET candidate == normalizeCapturedKey(e)
      conflict == findBindingConflict(bindings, listeningActionId.v, candidate)
  IN IF e.key = "Escape"
     THEN /\ listeningActionId' = Null
          /\ errorMessage' = NoError
          /\ lastOp' = KeyOp(e, "cancelled")
          /\ UNCHANGED << storage, isOpen, bindings >>
     ELSE IF ~Truthy(candidate)
     THEN /\ errorMessage' = [kind |-> "unsupported", action |-> "", token |-> ""]
          /\ lastOp' = KeyOp(e, "unsupported")
          /\ UNCHANGED << storage, isOpen, bindings, listeningActionId >>
     ELSE IF isReservedBinding(candidate)
     THEN /\ errorMessage' = [kind |-> "reserved", action |-> "", token |-> ""]
          /\ lastOp' = KeyOp(e, "reserved")
          /\ UNCHANGED << storage, isOpen, bindings, listeningActionId >>
     ELSE IF Truthy(conflict)
     THEN /\ errorMessage' =
               [kind |-> "conflict", action |-> conflict.v, token |-> candidate.v]
          /\ lastOp' = KeyOp(e, "conflict")
          /\ UNCHANGED << storage, isOpen, bindings, listeningActionId >>
     ELSE \E writeThrows, readThrows, hasConfig \in BOOLEAN :
            \E r \in { saveRuntimeKeybindings(
                         ObjectOf([bindings EXCEPT ![listeningActionId.v] = candidate]),
                         storage, writeThrows, hasConfig) } :
               /\ storage' = r.storage
               /\ IF r.raised
                  THEN /\ lastOp' = [KeyOp(e, "raised") EXCEPT
                                       !.raised = TRUE,
                                       !.writeFailed = writeThrows]
                       /\ UNCHANGED << bindings, listeningActionId, errorMessage >>
                  ELSE /\ bindings' = r.ret
                       /\ listeningActionId' = Null
                       /\ errorMessage' = NoError
                       /\ lastOp' =
                            [KeyOp(e, "saved") EXCEPT
                               !.notified = r.notified,
                               !.writeFailed = writeThrows,
                               !.readFailed = readThrows,
                               !.observed =
                                  loadRuntimeKeybindings(r.atNotify, readThrows,
                                                         hasConfig)]
               /\ UNCHANGED isOpen

\* The bubbling keydown listener: Escape closes the panel unless rebinding.
handleKeyDown(e) ==
  IF e.key = "Escape" /\ isOpen /\ listeningActionId = Null
  THEN /\ isOpen' = FALSE
       /\ listeningActionId' = Null
       /\ errorMessage' = NoError
       /\ lastOp' = KeyOp(e, "closed")
       /\ UNCHANGED << storage, bindings >>
  ELSE /\ lastOp' = KeyOp(e, "ignored")
       /\ UNCHANGED << storage, isOpen, bindings, listeningActionId, errorMessage >>

\* A key press whose capturing listener lets the event through: on Escape the
\* bubbling listener closes the panel too.
KeyDownPropagates(e) ==
  /\ IF isOpen /\ listeningActionId # Null
     THEN IF e.key = "Escape"
          THEN /\ isOpen' = FALSE
               /\ listeningActionId' = Null
               /\ errorMessage' = NoError
               /\ lastOp' = KeyOp(e, "cancelled")
               /\ UNCHANGED << storage, bindings >>
          ELSE handleCaptureKey(e)
     ELSE handleKeyDown(e)
  /\ PureUnchanged

\* A key press. The capturing listener stops the propagation, so that the
\* bubbling listener runs only when the capturing one is not registered.
KeyDown(e) ==
  /\ IF isOpen /\ listeningActionId # Null
     THEN handleCaptureKey(e)
     ELSE handleKeyDown(e)
  /\ PureUnchanged

Next ==
  \/ \E readThrows, hasConfig \in BOOLEAN : Open(readThrows, hasConfig)
  \/ Close
  \/ \E actionId \in PanelActions : StartListening(actionId)
  \/ \E writeThrows, readThrows, hasConfig \in BOOLEAN :
       ResetClick(writeThrows, readThrows, hasConfig)
  \/ \E e \in Events : KeyDown(e)

Spec == Init /\ [][Next]_vars

\* ------------------------------------------------- properties of the sanitizer

\* The reserved tokens as the specification lists them: Escape, the digits,
\* the numpad digits and the map-toggle letter.
SpecReservedTokens ==
  { "Escape", "KeyM",
    "Digit0", "Digit1", "Digit2", "Digit3", "Digit4",
    "Digit5", "Digit6", "Digit7", "Digit8", "Digit9",
    "Numpad0", "Numpad1", "Numpad2", "Numpad3", "Numpad4",
    "Numpad5", "Numpad6", "Numpad7", "Numpad8", "Numpad9" }

\* The canonical spellings: the results of the alias table and the strings
\* of the whitelisted patterns.
CanonicalTokens ==
  { "Shift", "Control", "Alt", "Meta", "Escape" }
    \cup KeyCodes \cup DigitCodes \cup NumpadCodes \cup ArrowCodes
    \cup NamedCodes \cup BracketCodes \cup PunctuationCodes

IsBindingToken(x) == x.t = "string" /\ x.v \in CanonicalTokens

Injective(mapping) ==
  \A a, b \in ActionIds : a # b => mapping[a] # mapping[b]

Unreserved(mapping) ==
  \A a \in ActionIds : ~(mapping[a].t = "string" /\ mapping[a].v \in SpecReservedTokens)

Complete(mapping) ==
  /\ DOMAIN mapping = ActionIds
  /\ \A a \in ActionIds : IsBindingToken(mapping[a])

IndexOf(a) == CHOOSE i \in DOMAIN REBINDABLE_ACTION_IDS : REBINDABLE_ACTION_IDS[i] = a

\* C1 (injectivity): whatever the candidate, the mapping sanitizeBindings
\* returns never binds two different actions to the same token.
C1_Injectivity == phase # "input" => Injective(output)

\* Two fields of the candidate ask for the same token through different
\* spellings, and a third asks for another action's default.
C1_Witness ==
  /\ phase = "once"
  /\ input.fields["moveUp"] = Str(" KeyZ ")
  /\ input.fields["moveRight"] = Str("KeyZ")
  /\ input.fields["chat"] = Str("KeyD")
  /\ output["moveUp"] = Str("KeyZ")
  /\ output["moveRight"] = Str("KeyD")
  /\ output["chat"] = Str("KeyY")

\* C2 (non-reservation): whatever the candidate, no value of the mapping
\* sanitizeBindings returns is a reserved token, aliases of reserved tokens
\* included.
C2_NonReservation == phase # "input" => Unreserved(output)

\* The candidate asks for Escape through the alias "esc" and for a digit.
C2_Witness ==
  /\ phase = "once"
  /\ input.fields["moveUp"] = Str("esc")
  /\ input.fields["moveRight"] = Str("Digit1")
  /\ output["moveUp"] = Str("KeyW")
  /\ output["moveRight"] = Str("KeyD")

\* C3 (completeness): whatever the candidate, sanitizeBindings returns a
\* mapping whose value for each of the 15 actions is a binding token.
C3_Completeness == phase # "input" => Complete(output)

\* C4 (idempotence): sanitizing the sanitized mapping gives it back, action
\* by action.
C4_Idempotence == phase = "twice" => output2 = output

\* The token the candidate asks for action a, Null when it asks for none.
Requested(a) ==
  IF input.kind \in { "object", "array" } /\ TypeOf(input.fields[a]) = "string"
  THEN normalizeBindingToken(input.fields[a])
  ELSE Null

ValidRequest(a) ==
  /\ IsBindingToken(Requested(a))
  /\ Requested(a).v \notin SpecReservedTokens

\* a is the earliest-declared action asking for its token, and b a later
\* one asking for the same token.
EarliestConflict(a, b) ==
  /\ IndexOf(a) < IndexOf(b)
  /\ ValidRequest(a)
  /\ Requested(b) = Requested(a)
  /\ \A c \in ActionIds : IndexOf(c) < IndexOf(a) => Requested(c) # Requested(a)

EarlierWins(a, b) ==
  /\ output[a] = Requested(a)
  /\ output[b] = DEFAULT_RUNTIME_KEYBINDINGS[b]
  /\ \A c \in ActionIds :
       input.fields[c] = Undefined => output[c] = DEFAULT_RUNTIME_KEYBINDINGS[c]

\* C7 as stated (conflict precedence): when two actions ask for the same
\* valid, non-reserved token, the earlier-declared one gets it and the later
\* one falls back to its default, whatever the token.
C7_EarlierWins ==
  phase # "input" =>
    \A a, b \in ActionIds : EarliestConflict(a, b) => EarlierWins(a, b)

DefaultOfAnother(a, token) ==
  \E c \in ActionIds : c # a /\ DEFAULT_RUNTIME_KEYBINDINGS[c] = token

DefaultOfLater(a, token) ==
  \E c \in ActionIds :
    IndexOf(a) < IndexOf(c) /\ DEFAULT_RUNTIME_KEYBINDINGS[c] = token

\* C7 as amended: the earlier-declared action wins when the token is not the
\* default of another action; an action asking for the default token of a
\* later-declared action stays at its own default.
C7_EarlierWinsUnlessDefault ==
  phase # "input" =>
    /\ \A a, b \in ActionIds :
         EarliestConflict(a, b) /\ ~DefaultOfAnother(a, Requested(a))
           => EarlierWins(a, b)
    /\ \A a \in ActionIds :
         ValidRequest(a) /\ DefaultOfLater(a, Requested(a))
           => output[a] = DEFAULT_RUNTIME_KEYBINDINGS[a]

\* moveUp and moveRight both ask for KeyZ: moveUp gets it.
C7_Witness ==
  /\ phase = "once"
  /\ input.fields["moveUp"] = Str("KeyZ")
  /\ input.fields["moveRight"] = Str(" KeyZ ")
  /\ input.fields["chat"] = Undefined
  /\ output["moveUp"] = Str("KeyZ")
  /\ output["moveRight"] = Str("KeyD")
  /\ output["chat"] = Str("KeyY")

\* ------------------------------------------- properties of load, save, reset

\* C5 (round trip): with storage available, a load right after save(m)
\* returns sanitize(m), which is also what save returned.
C5_RoundTrip ==
  [][ ( /\ lastOp.op = "save" /\ ~lastOp.writeFailed
        /\ lastOp'.op = "load" /\ ~lastOp'.readFailed )
      => ( /\ output' = sanitizeBindings(input)
           /\ output' = output ) ]_vars

\* C6 (reset): whatever was rebound and stored before, reset returns exactly
\* the Default Mapping, and with storage available a following load (the one
\* the updated event triggers, and any later one) returns exactly the Default
\* Mapping.
C6_Reset ==
  lastOp.op = "reset" =>
    /\ bindings = DEFAULT_RUNTIME_KEYBINDINGS
    /\ ~lastOp.writeFailed =>
         /\ \A hasConfig \in BOOLEAN :
              loadRuntimeKeybindings(storage, FALSE, hasConfig)
                = DEFAULT_RUNTIME_KEYBINDINGS
         /\ ~lastOp.readFailed => lastOp.observed = DEFAULT_RUNTIME_KEYBINDINGS

\* A reset that wrote the defaults over other contents.
C6_Witness ==
  /\ lastOp.op = "reset"
  /\ ~lastOp.writeFailed
  /\ ~lastOp.readFailed
  /\ storage = JsonStringify(DEFAULT_RUNTIME_KEYBINDINGS)
  /\ bindings = DEFAULT_RUNTIME_KEYBINDINGS

\* --------------------------------------------------- properties of the panel

\* The token of a captured physical key.
CapturedToken(code) == normalizeCapturedKey([key |-> "", code |-> code])

HeldByOther(a, token) ==
  /\ Truthy(token)
  /\ \E b \in ActionIds \ { a } : bindings[b] = token

\* The first action other than a, in registry order, bound to token.
FirstHolder(a, token) ==
  CHOOSE b \in ActionIds \ { a } :
    /\ bindings[b] = token
    /\ \A c \in ActionIds \ { a } : bindings[c] = token => IndexOf(b) <= IndexOf(c)

\* C8 (conflict rejection): while listening for a, a key other than the
\* cancel signal whose token another action holds is rejected with a message
\* naming the first such action in registry order; the panel keeps listening
\* for a, the mapping in memory and the stored one stay as they were, and no
\* updated event is sent.
C8_ConflictRejected ==
  [][ \A a \in ActionIds :
        ( /\ isOpen /\ listeningActionId = Str(a)
          /\ lastOp'.op = "keydown" /\ lastOp'.key # "Escape"
          /\ HeldByOther(a, CapturedToken(lastOp'.code)) )
        => ( /\ errorMessage' =
                  [ kind |-> "conflict",
                    action |-> FirstHolder(a, CapturedToken(lastOp'.code)),
                    token |-> CapturedToken(lastOp'.code).v ]
             /\ listeningActionId' = listeningActionId
             /\ bindings' = bindings
             /\ storage' = storage
             /\ ~lastOp'.notified ) ]_vars

\* From the default mapping, interact rebound to chat's key: rejected, naming
\* chat.
C8_Witness ==
  /\ lastOp.op = "keydown"
  /\ lastOp.code = "KeyY"
  /\ listeningActionId = Str("interact")
  /\ bindings = DEFAULT_RUNTIME_KEYBINDINGS
  /\ errorMessage = [kind |-> "conflict", action |-> "chat", token |-> "KeyY"]

\* isReservedBinding is true of exactly the canonical tokens with a physical
\* expansion in the reserved set.
ReservedExactly ==
  \A t \in CanonicalTokens :
    isReservedBinding(Str(t)) <=>
      \E i \in DOMAIN getBindingEventCodes(Str(t)) :
        getBindingEventCodes(Str(t))[i].v \in SpecReservedTokens

\* C9 (reserved rejection): while listening for any action, in any mapping
\* state, a press of Escape, a digit, a numpad digit or KeyM leaves the
\* mapping in memory and the stored one as they were and sends no updated
\* event; and isReservedBinding is true of exactly the tokens with a physical
\* expansion in the reserved set.
C9_ReservedRejected ==
  [][ /\ ReservedExactly
      /\ ( /\ isOpen /\ listeningActionId # Null
           /\ lastOp'.op = "keydown"
           /\ lastOp'.code \in SpecReservedTokens )
         => ( /\ bindings' = bindings
              /\ storage' = storage
              /\ ~lastOp'.notified ) ]_vars

\* KeyM pressed while rebinding, in a mapping that was rebound before: the
\* reserved-key message is shown.
C9_Witness ==
  /\ lastOp.op = "keydown"
  /\ lastOp.outcome = "reserved"
  /\ lastOp.code = "KeyM"
  /\ lastOp.key # "Escape"
  /\ listeningActionId = Str("chat")
  /\ bindings["interact"] = Str("KeyZ")
  /\ errorMessage.kind = "reserved"

Valid(mapping) == Complete(mapping) /\ Injective(mapping) /\ Unreserved(mapping)

\* The mapping a stored snapshot holds.
Snapshot == [a \in ActionIds |-> storage.value.fields[a]]

\* C10 (the invariants in memory and in storage): in every reachable state the
\* mapping the panel holds is complete, injective and free of reserved
\* tokens, and so is every snapshot written by save or reset.
C10_MappingInvariants ==
  /\ Valid(bindings)
  /\ (lastOp.notified /\ ~lastOp.writeFailed) =>
       (storage.kind = "json" /\ Valid(Snapshot))

\* ------------------------------------------------- the rebind state machine

\* The verdict on a physical key pressed while listening for a: rejected when
\* it has no token, a reserved token, or a token another action holds.
Rejected(a, code) ==
  LET token == CapturedToken(code)
  IN \/ ~Truthy(token)
     \/ isReservedBinding(token)
     \/ HeldByOther(a, token)

Listening(a) == isOpen /\ listeningActionId = Str(a)

\* The key presses of the state machine: the cancel signal and an accepted
\* key lead to Idle, a rejected key back to Listening(a).
KeyTransition(a) ==
  /\ lastOp'.op = "keydown"
  /\ IF lastOp'.key = "Escape"
     THEN listeningActionId' = Null /\ lastOp'.outcome = "cancelled"
     ELSE IF Rejected(a, lastOp'.code)
     THEN /\ listeningActionId' = Str(a)
          /\ lastOp'.outcome \in { "unsupported", "reserved", "conflict" }
          /\ errorMessage' # NoError
     ELSE listeningActionId' = Null /\ lastOp'.outcome = "saved"

\* C11 as stated (rebind state machine): from Listening(a) every step is one
\* of the three key transitions; no other event leaves Listening(a) or
\* changes the action being rebound.
C11_OnlyKeysLeaveListening ==
  [][ \A a \in ActionIds : Listening(a) => KeyTransition(a) ]_vars

\* C11 (rebind state machine, amended): from Listening(a) a key press is one of
\* the three key transitions; besides key presses, a click on the row of an
\* action b leads to Listening(b), and the Reset button and the closing of
\* the panel lead to Idle. Nothing else leaves Listening(a): there is no timer.
C11_RebindStateMachine ==
  [][ \A a \in ActionIds :
        Listening(a) =>
          \/ KeyTransition(a)
          \/ /\ lastOp'.op = "start"
             /\ isOpen'
             /\ \E b \in ActionIds : listeningActionId' = Str(b)
          \/ /\ lastOp'.op = "reset"
             /\ isOpen'
             /\ listeningActionId' = Null
          \/ /\ lastOp'.op = "close"
             /\ ~isOpen'
             /\ listeningActionId' = Null ]_vars

\* Listening for interact in the default mapping, chat's key was pressed and
\* rejected: the panel still listens for interact.
C11_Witness ==
  /\ Listening("interact")
  /\ lastOp.op = "keydown"
  /\ lastOp.outcome = "conflict"
  /\ Rejected("interact", lastOp.code)

\* C12 (cancellation): an Escape key press in Listening(a) leads to Idle in
\* that step; the mapping in memory and the stored one are unchanged, no
\* updated event is sent, and the panel stays open.
C12_Cancellation ==
  [][ \A a \in ActionIds :
        ( /\ Listening(a)
          /\ lastOp'.op = "keydown"
          /\ lastOp'.key = "Escape" )
        => ( /\ listeningActionId' = Null
             /\ bindings' = bindings
             /\ storage' = storage
             /\ ~lastOp'.notified
             /\ isOpen' ) ]_vars

\* A rebind of a rebound mapping was cancelled: the panel is open and idle and
\* the rebound mapping is still held and stored.
C12_Witness ==
  /\ lastOp.op = "keydown"
  /\ lastOp.key = "Escape"
  /\ lastOp.outcome = "cancelled"
  /\ isOpen
  /\ listeningActionId = Null
  /\ bindings["interact"] = Str("KeyZ")
  /\ storage = JsonStringify(bindings)

\* ------------------------------------------------------ per-field fallback

\* A field value the sanitizer is to refuse: missing or not a string, a string
\* that is a spelling of no canonical token, or a spelling of a reserved one.
Unusable(raw) ==
  \/ TypeOf(raw) # "string"
  \/ ~IsBindingToken(normalizeBindingToken(raw))
  \/ normalizeBindingToken(raw).v \in SpecReservedTokens

\* The candidate without its keys that are not registered action ids.
WithoutUnrelatedKeys(value) ==
  [value EXCEPT !.fields =
     [k \in Keys |-> IF k \in UnrelatedKeys THEN Undefined ELSE value.fields[k]]]

\* C13 (per-field fallback): an action whose field in the candidate is
\* missing, not a string, fails normalization or normalizes to a reserved
\* token is bound to its default, whatever the other fields hold; and the
\* keys that are not registered action ids have no effect on the result.
C13_PerFieldFallback ==
  phase # "input" =>
    /\ \A a \in ActionIds :
         Unusable(input.fields[a]) => output[a] = DEFAULT_RUNTIME_KEYBINDINGS[a]
    /\ output = sanitizeBindings(WithoutUnrelatedKeys(input))

\* ------------------------------------------------- failures of the storage

\* C14 (storage write failure): a save whose storage write fails still
\* returns the sanitized mapping without raising, still sends the updated
\* event, and leaves the stored value as it was.
C14_WriteFailure ==
  [][ ( lastOp'.op = "save" /\ lastOp'.writeFailed )
      => ( /\ ~lastOp'.raised
           /\ output' = sanitizeBindings(input')
           /\ lastOp'.notified
           /\ storage' = storage ) ]_vars

\* C15 (load never fails): load returns the Default Mapping when the entry
\* is absent, when the read raises or when the stored text does not parse;
\* for every other stored value it returns what the sanitizer returns for
\* the parsed value. It never raises.
C15_LoadNeverFails ==
  [][ lastOp'.op = "load"
      => ( /\ ~lastOp'.raised
           /\ output' =
                IF lastOp'.readFailed \/ storage.kind # "json"
                THEN DEFAULT_RUNTIME_KEYBINDINGS
                ELSE sanitizeBindings(storage.value) ) ]_vars

\* ------------------------------------------------------ normalizer closure

\* The strings the normalizer is to accept: those whose trimmed form is, up
\* to letter case, a key of the alias table, or is a string of a whitelisted
\* pattern.
Accepted(s) ==
  \/ ToLowerCase(Trim(s)) \in DOMAIN CANONICAL_ALIASES
  \/ MatchesPattern(Trim(s))

\* C17 (normalizer closure): for every raw string normalizeBindingToken
\* returns null or a canonical token string; it returns a token only for a
\* string whose trimmed form is a case-insensitive alias key or matches a
\* whitelisted pattern, and null for every other string, "constructor" and
\* "toString" among them.
C17_NormalizerClosure ==
  phase # "raw" =>
    /\ output = Null \/ IsBindingToken(output)
    /\ output # Null => Accepted(input.v)
    /\ ~Accepted(input.v) => output = Null

\* --------------------------------------------------------- alias collapsing

\* Spellings of the Shift key: "shift" in every letter case, "shiftleft" and
\* "shiftright" in several, and some with white space around.
ShiftSpellings ==
  {
    "shift", "shifT", "shiFt", "shiFT", "shIft", "shIfT", "shIFt", "shIFT",
    "sHift", "sHifT", "sHiFt", "sHiFT", "sHIft", "sHIfT", "sHIFt", "sHIFT",
    "Shift", "ShifT", "ShiFt", "ShiFT", "ShIft", "ShIfT", "ShIFt", "ShIFT",
    "SHift", "SHifT", "SHiFt", "SHiFT", "SHIft", "SHIfT", "SHIFt", "SHIFT",
    "shiftleft", "ShiftLeft", "SHIFTLEFT", "shiftLeft", "ShiftLEFT", "Shiftleft",
    "shiftright", "ShiftRight", "SHIFTRIGHT", "SHIFTright", "shiftRight",
    "  shift  ", " ShiftRight", " SHIFTLEFT ", "Shift ", " shiftright", "  ShIfT" }

ShiftCollapses ==
  \A s \in ShiftSpellings : normalizeBindingToken(Str(s)) = Str("Shift")

ShiftMatchesBoth ==
  /\ matchesBinding("ShiftLeft", Str("Shift"))
  /\ matchesBinding("ShiftRight", Str("Shift"))

\* C16 (alias collapsing): every spelling of shift, shiftleft and shiftright
\* normalizes to the one token Shift; Shift matches the physical events
\* ShiftLeft and ShiftRight; and while listening for a, a press of either
\* physical Shift key when another action holds Shift is rejected as a
\* conflict with that action.
C16_AliasCollapsing ==
  [][ /\ ShiftCollapses
      /\ ShiftMatchesBoth
      /\ ( /\ isOpen /\ listeningActionId # Null
           /\ lastOp'.op = "keydown" /\ lastOp'.key # "Escape"
           /\ lastOp'.code \in { "ShiftLeft", "ShiftRight" } )
         => \A b \in ActionIds \ { listeningActionId.v } :
              bindings[b] = Str("Shift")
              => ( /\ lastOp'.outcome = "conflict"
                   /\ errorMessage' =
                        [kind |-> "conflict", action |-> b, token |-> "Shift"]
                   /\ bindings' = bindings
                   /\ listeningActionId' = listeningActionId ) ]_vars

\* The right Shift key pressed while rebinding interact, sprint holding
\* Shift: rejected, naming sprint.
C16_Witness ==
  /\ Listening("interact")
  /\ lastOp.op = "keydown"
  /\ lastOp.code = "ShiftRight"
  /\ bindings["sprint"] = Str("Shift")
  /\ errorMessage = [kind |-> "conflict", action |-> "sprint", token |-> "Shift"]

\* ----------------------------------------------------- effect of a rebind

\* C18 (an accepted rebind takes effect): in every reachable state, a key
\* pressed while listening for a that normalizes to a token t, not reserved
\* and held by no other action, is saved: the mapping in memory afterwards
\* binds a to t and every other action as before, and it is the mapping
\* persisted (when the write succeeds) and the one observers reload.
C18_AcceptedRebind ==
  [][ \A a \in ActionIds :
        ( /\ Listening(a)
          /\ lastOp'.op = "keydown" /\ lastOp'.key # "Escape"
          /\ ~Rejected(a, lastOp'.code) )
        => ( /\ lastOp'.outcome = "saved"
             /\ bindings' = [bindings EXCEPT ![a] = CapturedToken(lastOp'.code)]
             /\ ~lastOp'.writeFailed => storage' = JsonStringify(bindings') ) ]_vars

\* --------------------------------------------------- valid mappings kept

\* The mapping an object holds.
MappingOf(value) == [a \in ActionIds |-> value.fields[a]]

\* C19 (sanitize is the identity on valid mappings): a mapping of the 15
\* actions to canonical tokens that is complete, injective and free of
\* reserved tokens is returned by sanitizeBindings as it is.
C19_IdentityOnValid ==
  ( /\ phase # "input"
    /\ input.kind = "object"
    /\ Valid(MappingOf(input)) )
  => output = MappingOf(input)

\* ------------------------------------------------------ write, then notify

\* C20 (write before notify): every save and every reset sends the updated
\* event once, after the write was attempted; with storage available a
\* listener that reloads in its handler obtains the mapping the call
\* returns, and that mapping is the one persisted.
C20_WriteBeforeNotify ==
  [][ lastOp'.op \in { "save", "reset" }
      => ( /\ ~lastOp'.raised
           /\ lastOp'.notified
           /\ ~lastOp'.writeFailed =>
                /\ lastOp'.observed = output'
                /\ storage'.kind = "json"
                /\ Snapshot' = output' ) ]_vars

\* ------------------------------------------- one action per physical key

\* The codes a keyboard event carries: the strings of the whitelisted
\* patterns and the left and right modifier keys.
PhysicalCodes ==
  KeyCodes \cup DigitCodes \cup NumpadCodes \cup ArrowCodes \cup NamedCodes
    \cup BracketCodes \cup PunctuationCodes
    \cup { "ShiftLeft", "ShiftRight", "ControlLeft", "ControlRight",
           "AltLeft", "AltRight", "MetaLeft", "MetaRight", "Escape" }

\* The set of the values getBindingEventCodes(token) lists.
Expansion(token) ==
  { getBindingEventCodes(token)[i] : i \in DOMAIN getBindingEventCodes(token) }

\* The actions a key press of `code` triggers under `mapping`.
Triggered(mapping, code) ==
  { a \in ActionIds : matchesBinding(code, mapping[a]) }

\* C21 (no physical key triggers two actions): in every mapping
\* sanitizeBindings returns, every physical key code matches the token of at
\* most one action, and the physical expansions of the tokens of two
\* different actions are disjoint, the expansions of Shift, Control, Alt and
\* Meta included.
C21_OneActionPerKey ==
  phase # "input" =>
    /\ \A code \in PhysicalCodes : Cardinality(Triggered(output, code)) <= 1
    /\ \A a, b \in ActionIds :
         a # b => Expansion(output[a]) \cap Expansion(output[b]) = {}

\* A candidate asked for the left Shift key for moveUp while sprint holds
\* Shift: moveUp keeps its default, and both Shift keys trigger sprint only.
C21_Witness ==
  /\ phase # "input"
  /\ input.kind = "object"
  /\ input.fields["moveUp"] = Str("ShiftLeft")
  /\ output["sprint"] = Str("Shift")
  /\ output["moveUp"] = Str("KeyW")
  /\ Triggered(output, "ShiftLeft") = { "sprint" }
  /\ Triggered(output, "ShiftRight") = { "sprint" }

====
